---- MODULE Spec2Model ----
(***************************************************************************)
(* A state-machine model of package/montecarlo.py: the Die, Game and       *)
(* Analyzer classes.  pandas DataFrames are objects on a heap, so that a   *)
(* copy and an alias are different things; the random draws of             *)
(* DataFrame.sample are a nondeterministic choice among the rows of        *)
(* positive weight.                                                        *)
(***************************************************************************)
EXTENDS Integers, Sequences, FiniteSets, TLC

\* Largest num_rolls argument tried (the smallest is -1).
MaxRolls == 2

VARIABLES
    dice,       \* Game.dice: the Die objects, each [faces, weights, die_state]
    heap,       \* the DataFrame objects, by reference
    results,    \* Game.results: None or a reference
    analyzer,   \* Analyzer.results of the analyzer built last: None or a reference
    handle,     \* the DataFrame the caller got from get_state / get_recent_play
    last        \* the last call: [op, args, exc, msg, val]

vars == <<dice, heap, results, analyzer, handle, last>>

---------------------------------------------------------------------------
\* Python values

None == 0

\* A face: a Python int, or a Python str given by its rank in string order.
IntFace(n) == [t |-> "int", v |-> n]
StrFace(n) == [t |-> "str", v |-> n]

\* A float: a finite number, nan or inf.
Num(n) == [k |-> "num", v |-> n]
NaN == [k |-> "nan", v |-> 0]
Inf == [k |-> "inf", v |-> 0]

\* Arguments a caller may pass as new_weight.
PyNum(n) == [ty |-> "num", num |-> n, txt |-> ""]
PyNaN == [ty |-> "nan", num |-> 0, txt |-> ""]
PyInf == [ty |-> "inf", num |-> 0, txt |-> ""]
PyStr(s) == [ty |-> "str", num |-> 0, txt |-> s]
PyNone == [ty |-> "NoneType", num |-> 0, txt |-> ""]

\* float(x): [exc, val].  A numeric text converts, "nan" and "inf" convert
\* to the special floats, any other text raises ValueError, None raises
\* TypeError.
float(x) ==
    CASE x.ty = "num" -> [exc |-> "", val |-> Num(x.num)]
      [] x.ty = "nan" -> [exc |-> "", val |-> NaN]
      [] x.ty = "inf" -> [exc |-> "", val |-> Inf]
      [] x.ty = "str" /\ x.txt = "1" -> [exc |-> "", val |-> Num(1)]
      [] x.ty = "str" /\ x.txt = "nan" -> [exc |-> "", val |-> NaN]
      [] x.ty = "str" /\ x.txt = "inf" -> [exc |-> "", val |-> Inf]
      [] x.ty = "str" -> [exc |-> "ValueError", val |-> NaN]
      [] OTHER -> [exc |-> "TypeError", val |-> NaN]

\* The record of a call that returned val, and of one that raised.
Return(op, args, val) ==
    [op |-> op, args |-> args, exc |-> "", msg |-> "", val |-> val]
Raise(op, args, exc, msg) ==
    [op |-> op, args |-> args, exc |-> exc, msg |-> msg, val |-> <<>>]

---------------------------------------------------------------------------
\* The heap of DataFrames

Free == [kind |-> "free"]

\* The frame Die.__init__ builds: index Faces, column Weights.
DieFrame(w) == [kind |-> "die", w |-> w]
\* The frame Game.play builds: one column per die.
WideFrame(cols) == [kind |-> "wide", cols |-> cols]
\* The frame melt builds: rows (Die, Outcome).
NarrowFrame(rows) == [kind |-> "narrow", rows |-> rows]

\* The references something still holds.
Roots(d, res, an, hd) ==
    {d[i].die_state : i \in DOMAIN d} \cup ({res, an, hd} \ {None})

\* The heap with every frame nothing refers to released.
Collect(h, roots) == [r \in DOMAIN h |-> IF r \in roots THEN h[r] ELSE Free]

\* The reference a new object gets: the lowest free one at or above `from`
\* (the frames of one owner are allocated from the same place, so that equal
\* heaps are equal states), else the lowest free one.
NewRef(h, from) ==
    LET free == {r \in DOMAIN h : h[r].kind = "free"}
        above == {r \in free : r >= from}
    IN  IF above # {}
          THEN CHOOSE r \in above : \A s \in above : r <= s
          ELSE CHOOSE r \in free : \A s \in free : r <= s

SeqToSet(s) == {s[i] : i \in DOMAIN s}

---------------------------------------------------------------------------
\* Die

\* Die.__init__: the die object and its frame, all weights 1.0.
Die_init(faces, ref) ==
    [obj |-> [faces |-> faces,
              weights |-> [i \in DOMAIN faces |-> Num(1)],
              die_state |-> ref],
     frame |-> DieFrame([f \in SeqToSet(faces) |-> Num(1)])]

\* face in self.die_state.index
FaceInIndex(fr, face) == face \in DOMAIN fr.w

\* self.die_state.loc[face, 'Weights'] = new_weight (a label that is not in
\* the index enlarges the frame).
LocSet(fr, face, w) ==
    DieFrame([f \in DOMAIN fr.w \cup {face} |-> IF f = face THEN w ELSE fr.w[f]])

change_weight(i, face, new_weight) ==
    LET ref == dice[i].die_state
        fr == heap[ref]
        conv == float(new_weight)
        args == <<i, face, new_weight>>
    IN  /\ IF ~FaceInIndex(fr, face)
             THEN /\ last' = Raise("change_weight", args, "IndexError",
                                   "the face does not exist in this die")
                  /\ heap' = heap
             ELSE IF conv.exc = "ValueError"
             THEN /\ last' = Raise("change_weight", args, "TypeError",
                                   "weight must be a number")
                  /\ heap' = heap
             ELSE IF conv.exc # ""
             THEN /\ last' = Raise("change_weight", args, conv.exc, "float()")
                  /\ heap' = heap
             ELSE /\ last' = Return("change_weight", args, <<>>)
                  /\ heap' = [heap EXCEPT ![ref] = LocSet(fr, face, conv.val)]
        /\ UNCHANGED <<dice, results, analyzer, handle>>

\* DataFrame.sample(n, weights, replace=True) raises ValueError for n < 0,
\* for a weight that is inf or negative, and for weights that sum to zero
\* (nan counts as zero).
SampleRaises(fr, n) ==
    \/ n < 0
    \/ \E f \in DOMAIN fr.w : fr.w[f].k = "inf"
    \/ \E f \in DOMAIN fr.w : fr.w[f].k = "num" /\ fr.w[f].v < 0
    \/ \A f \in DOMAIN fr.w : fr.w[f].k = "nan" \/ fr.w[f].v = 0

\* The index labels sample can return: n draws, with replacement, among the
\* rows of positive weight.
SampleOneMore(fr, n) ==
    [1..(n + 1) -> {f \in DOMAIN fr.w : fr.w[f].k = "num" /\ fr.w[f].v > 0}]
Sample(fr, n) ==
    [1..n -> {f \in DOMAIN fr.w : fr.w[f].k = "num" /\ fr.w[f].v > 0}]

roll(i, num_rolls) ==
    LET fr == heap[dice[i].die_state]
        args == <<i, num_rolls>>
    IN  /\ IF SampleRaises(fr, num_rolls)
             THEN last' = Raise("roll", args, "ValueError", "sample")
             ELSE \E outcomes \in Sample(fr, num_rolls) :
                      last' = Return("roll", args, outcomes)
        /\ UNCHANGED <<dice, heap, results, analyzer, handle>>

\* self.die_state.copy(): the reference returned and the heap after it.
GetStateAlias(h, ref) == [ref |-> ref, heap |-> h]
GetStateCopy(h, ref) ==
    LET new == NewRef(h, Len(dice) + 3)
    IN  [ref |-> new, heap |-> [h EXCEPT ![new] = h[ref]]]

get_state(i) ==
    LET got == GetStateCopy(Collect(heap, Roots(dice, results, analyzer, None)),
                            dice[i].die_state)
    IN  /\ handle' = got.ref
        /\ heap' = got.heap
        /\ last' = Return("get_state", <<i>>, <<>>)
        /\ UNCHANGED <<dice, results, analyzer>>

\* The caller writes a weight into the frame get_state returned (a new label
\* adds a row).
snapshot_set(face, w) ==
    /\ handle # None
    /\ heap[handle].kind = "die"
    /\ heap' = [heap EXCEPT ![handle] = LocSet(heap[handle], face, w)]
    /\ last' = Return("snapshot_set", <<face, w>>, <<>>)
    /\ UNCHANGED <<dice, results, analyzer, handle>>

\* The caller drops a row of the frame get_state returned, in place.
snapshot_drop(face) ==
    /\ handle # None
    /\ heap[handle].kind = "die"
    /\ face \in DOMAIN heap[handle].w
    /\ heap' = [heap EXCEPT ![handle] =
                   DieFrame([f \in DOMAIN heap[handle].w \ {face} |-> heap[handle].w[f]])]
    /\ last' = Return("snapshot_drop", <<face>>, <<>>)
    /\ UNCHANGED <<dice, results, analyzer, handle>>

---------------------------------------------------------------------------
\* Game

\* The rows of a wide frame built from the columns cols.
NumRows(cols) == IF cols = <<>> THEN 0 ELSE Len(cols[1])
Row(cols, r) == [c \in DOMAIN cols |-> cols[c][r]]

Min(S) == CHOOSE m \in S : \A k \in S : m <= k

\* The loop of play over the outcomes draws[i] of the dice: roll_results when
\* it ends, and the exception that ended it.  A die whose roll raises ends
\* the loop; the dice before it have been rolled.
PlayLoop(frames, num_rolls, draws) ==
    LET bad == {i \in DOMAIN frames : SampleRaises(frames[i], num_rolls)}
        stop == IF bad = {} THEN Len(frames) + 1 ELSE Min(bad)
    IN  [exc |-> IF bad = {} THEN "" ELSE "ValueError",
         roll_results |-> [i \in 1..(stop - 1) |-> draws[i]]]

\* What the dice can return to one play call.
PlayDraws(frames, num_rolls) ==
    LET can(i) == IF SampleRaises(frames[i], num_rolls)
                    THEN {<<>>}
                    ELSE Sample(frames[i], num_rolls)
    IN  {d \in [DOMAIN frames -> UNION {can(i) : i \in DOMAIN frames}] :
            \A i \in DOMAIN frames : d[i] \in can(i)}

\* Mutant of play: self.results is assigned after every die, so a failing
\* die leaves the columns rolled so far.
play_partial(num_rolls) ==
    LET frames == [i \in DOMAIN dice |-> heap[dice[i].die_state]]
        h == Collect(heap, Roots(dice, None, analyzer, handle))
        ref == NewRef(h, Len(dice) + 1)
    IN  \E draws \in PlayDraws(frames, num_rolls) :
            LET loop == PlayLoop(frames, num_rolls, draws)
            IN  /\ results' = IF loop.roll_results = <<>> /\ loop.exc # ""
                                THEN results ELSE ref
                /\ heap' = IF results' = ref
                            THEN [h EXCEPT ![ref] = WideFrame(loop.roll_results)]
                            ELSE heap
                /\ last' = IF loop.exc # ""
                             THEN Raise("play", <<num_rolls>>, loop.exc, "sample")
                             ELSE Return("play", <<num_rolls>>, <<>>)
                /\ UNCHANGED <<dice, analyzer, handle>>

\* Mutant of play: the new rows are appended to the table already stored.
play_append(num_rolls) ==
    LET frames == [i \in DOMAIN dice |-> heap[dice[i].die_state]]
        h == Collect(heap, Roots(dice, None, analyzer, handle))
        ref == NewRef(h, Len(dice) + 1)
        old == IF results = None THEN [i \in DOMAIN dice |-> <<>>]
                                 ELSE heap[results].cols
    IN  \E draws \in PlayDraws(frames, num_rolls) :
            LET loop == PlayLoop(frames, num_rolls, draws)
            IN  IF loop.exc # ""
                  THEN /\ last' = Raise("play", <<num_rolls>>, loop.exc, "sample")
                       /\ UNCHANGED <<dice, heap, results, analyzer, handle>>
                  ELSE /\ results' = ref
                       /\ heap' = [h EXCEPT ![ref] = WideFrame(
                                      [i \in DOMAIN dice |-> old[i] \o loop.roll_results[i]])]
                       /\ last' = Return("play", <<num_rolls>>, <<>>)
                       /\ UNCHANGED <<dice, analyzer, handle>>

play(num_rolls) ==
    LET frames == [i \in DOMAIN dice |-> heap[dice[i].die_state]]
        h == Collect(heap, Roots(dice, None, analyzer, handle))
        ref == NewRef(h, Len(dice) + 1)
    IN  \E draws \in PlayDraws(frames, num_rolls) :
            LET loop == PlayLoop(frames, num_rolls, draws)
            IN  IF loop.exc # ""
                  THEN /\ last' = Raise("play", <<num_rolls>>, loop.exc, "sample")
                       /\ UNCHANGED <<dice, heap, results, analyzer, handle>>
                  ELSE /\ results' = ref
                       /\ heap' = [h EXCEPT ![ref] = WideFrame(loop.roll_results)]
                       /\ last' = Return("play", <<num_rolls>>, <<>>)
                       /\ UNCHANGED <<dice, analyzer, handle>>

\* self.results.copy(): the reference returned and the heap after it.
RecentPlayAlias(h, ref, from) == [ref |-> ref, heap |-> h]
RecentPlayCopy(h, ref, from) ==
    LET new == NewRef(h, from)
    IN  [ref |-> new, heap |-> [h EXCEPT ![new] = h[ref]]]

\* melt(var_name='Die', value_name='Outcome'): one row per cell, the columns
\* in order and, within a column, the rows in order; Die is the column's
\* label, which play numbers from 0.
RECURSIVE Melt(_, _)
Melt(cols, c) ==
    IF c > Len(cols) THEN <<>>
    ELSE [r \in DOMAIN cols[c] |-> [Die |-> c - 1, Outcome |-> cols[c][r]]]
            \o Melt(cols, c + 1)

\* Mutant of get_recent_play: no check that the game was played.
get_recent_play_unchecked(form) ==
    LET h == Collect(heap, Roots(dice, results, analyzer, None))
        cols == IF results = None THEN <<>> ELSE heap[results].cols
    IN  /\ handle' = NewRef(h, Len(dice) + 3)
        /\ heap' = [h EXCEPT ![NewRef(h, Len(dice) + 3)] =
                       IF form = "wide" THEN WideFrame(cols)
                                        ELSE NarrowFrame(Melt(cols, 1))]
        /\ last' = Return("get_recent_play", <<form>>, <<>>)
        /\ UNCHANGED <<dice, results, analyzer>>

get_recent_play(form) ==
    LET h == Collect(heap, Roots(dice, results, analyzer, None))
    IN  IF results = None
          THEN /\ last' = Raise("get_recent_play", <<form>>, "ValueError",
                                "no results to show. play the game first")
               /\ UNCHANGED <<dice, heap, results, analyzer, handle>>
          ELSE IF form = "wide"
          THEN /\ handle' = RecentPlayCopy(h, results, Len(dice) + 3).ref
               /\ heap' = RecentPlayCopy(h, results, Len(dice) + 3).heap
               /\ last' = Return("get_recent_play", <<form>>, <<>>)
               /\ UNCHANGED <<dice, results, analyzer>>
          ELSE IF form = "narrow"
          THEN /\ handle' = NewRef(h, Len(dice) + 3)
               /\ heap' = [h EXCEPT ![NewRef(h, Len(dice) + 3)] =
                              NarrowFrame(Melt(heap[results].cols, 1))]
               /\ last' = Return("get_recent_play", <<form>>, <<>>)
               /\ UNCHANGED <<dice, results, analyzer>>
          ELSE /\ last' = Raise("get_recent_play", <<form>>, "ValueError",
                                "invalid format. use 'wide' or 'narrow'")
               /\ UNCHANGED <<dice, heap, results, analyzer, handle>>

\* The caller writes a value into the first cell of the wide frame
\* get_recent_play returned.
table_set(face) ==
    /\ handle # None
    /\ heap[handle].kind = "wide"
    /\ NumRows(heap[handle].cols) > 0
    /\ heap' = [heap EXCEPT ![handle].cols[1][1] = face]
    /\ last' = Return("table_set", <<face>>, <<>>)
    /\ UNCHANGED <<dice, results, analyzer, handle>>

---------------------------------------------------------------------------
\* Analyzer

\* Analyzer.__init__(game): game is a Game ("game") or something else.  The
\* analyzer keeps what get_recent_play() returns, the wide copy.
Analyzer_init(game) ==
    LET h == Collect(heap, Roots(dice, results, None, handle))
    IN  IF game # "game"
          THEN /\ last' = Raise("Analyzer", <<game>>, "ValueError",
                                "input must be a game object")
               /\ UNCHANGED <<dice, heap, results, analyzer, handle>>
          ELSE IF results = None
          THEN /\ last' = Raise("Analyzer", <<game>>, "ValueError",
                                "the game has no results to analyze")
               /\ UNCHANGED <<dice, heap, results, analyzer, handle>>
          ELSE /\ analyzer' = RecentPlayCopy(h, results, Len(dice) + 2).ref
               /\ heap' = RecentPlayCopy(h, results, Len(dice) + 2).heap
               /\ last' = Return("Analyzer", <<game>>, <<>>)
               /\ UNCHANGED <<dice, results, handle>>

\* len(set(row)) == 1
IsJackpotRowInverted(row) == Cardinality(SeqToSet(row)) # 1
IsJackpotRow(row) == Cardinality(SeqToSet(row)) = 1

\* The loop of jackpot over the rows r, r+1, ... with the count so far.
RECURSIVE JackpotLoop(_, _, _)
JackpotLoop(cols, r, jackpots) ==
    IF r > NumRows(cols) THEN jackpots
    ELSE JackpotLoop(cols, r + 1,
                     IF IsJackpotRow(Row(cols, r)) THEN jackpots + 1 ELSE jackpots)

jackpot ==
    /\ analyzer # None
    /\ last' = Return("jackpot", <<>>, <<JackpotLoop(heap[analyzer].cols, 1, 0)>>)
    /\ UNCHANGED <<dice, heap, results, analyzer, handle>>

\* sorted(row) raises TypeError when it has to compare an int with a str.
SortedRaises(row) == \E i, j \in DOMAIN row : row[i].t # row[j].t

\* sorted(row), for values of one type: insertion into ascending order.
RECURSIVE InsertAscending(_, _)
InsertAscending(s, x) ==
    IF s = <<>> THEN <<x>>
    ELSE IF x.v < Head(s).v THEN <<x>> \o s
    ELSE <<Head(s)>> \o InsertAscending(Tail(s), x)

RECURSIVE SortedFrom(_, _)
SortedFrom(row, k) ==
    IF k = 0 THEN <<>> ELSE InsertAscending(SortedFrom(row, k - 1), row[k])

Unsorted(row) == row
Sorted(row) == SortedFrom(row, Len(row))

\* Series.value_counts(): one entry per distinct value with the number of
\* its occurrences, the most frequent first (ties in order of first
\* appearance).
RECURSIVE Distinct(_)
Distinct(s) ==
    IF s = <<>> THEN <<>>
    ELSE LET rest == Distinct(SubSeq(s, 1, Len(s) - 1))
         IN  IF \E i \in DOMAIN rest : rest[i] = s[Len(s)]
               THEN rest ELSE Append(rest, s[Len(s)])

Occurrences(s, x) == Cardinality({i \in DOMAIN s : s[i] = x})

RECURSIVE InsertDescending(_, _)
InsertDescending(s, e) ==
    IF s = <<>> THEN <<e>>
    ELSE IF e.n > Head(s).n THEN <<e>> \o s
    ELSE <<Head(s)>> \o InsertDescending(Tail(s), e)

RECURSIVE SortedByCount(_, _)
SortedByCount(es, k) ==
    IF k = 0 THEN <<>> ELSE InsertDescending(SortedByCount(es, k - 1), es[k])

ValueCounts(s) ==
    LET keys == Distinct(s)
        es == [i \in DOMAIN keys |-> [key |-> keys[i], n |-> Occurrences(s, keys[i])]]
    IN  SortedByCount(es, Len(es))

\* The rows of the analyzer's table, in order.
AnalyzerRows ==
    [r \in 1..NumRows(heap[analyzer].cols) |-> Row(heap[analyzer].cols, r)]

combo_count ==
    /\ analyzer # None
    /\ IF \E r \in DOMAIN AnalyzerRows : SortedRaises(AnalyzerRows[r])
         THEN last' = Raise("combo_count", <<>>, "TypeError",
                            "'<' not supported between instances of 'str' and 'int'")
         ELSE LET combinations == [r \in DOMAIN AnalyzerRows |-> Sorted(AnalyzerRows[r])]
                  combo_counts == ValueCounts(combinations)
              IN  last' = Return("combo_count", <<>>,
                                 [i \in DOMAIN combo_counts |->
                                     [Combination |-> combo_counts[i].key,
                                      Frequency |-> combo_counts[i].n]])
    /\ UNCHANGED <<dice, heap, results, analyzer, handle>>

permutation_count ==
    /\ analyzer # None
    /\ LET permutation_counts == ValueCounts(AnalyzerRows)
       IN  last' = Return("permutation_count", <<>>,
                          [i \in DOMAIN permutation_counts |->
                              [Permutation |-> permutation_counts[i].key,
                               Frequency |-> permutation_counts[i].n]])
    /\ UNCHANGED <<dice, heap, results, analyzer, handle>>

---------------------------------------------------------------------------
\* One die on its own

DieFaces == <<IntFace(1), IntFace(2)>>
AbsentFace == IntFace(7)
FaceInputs == SeqToSet(DieFaces) \cup {AbsentFace}
WeightInputs ==
    {PyNum(-1), PyNum(0), PyNaN, PyInf, PyStr("1"), PyStr("invalid"), PyNone}
\* The (face, new_weight) arguments tried: every weight on every face of the
\* die, and an absent face with a valid and an invalid weight.
ChangeWeightInputs ==
    (SeqToSet(DieFaces) \X WeightInputs)
        \cup {<<AbsentFace, PyNum(0)>>, <<AbsentFace, PyStr("invalid")>>}
SnapshotWeights == {Num(5)}
RollCounts == (-1)..MaxRolls

\* Game(dice) over dice built from the given face arrays.
Game_init(config) ==
    /\ dice = [i \in DOMAIN config |-> Die_init(config[i], i).obj]
    /\ heap = [r \in 1..(Len(config) + 4) |->
                  IF r \in DOMAIN config THEN Die_init(config[r], r).frame ELSE Free]
    /\ results = None
    /\ analyzer = None
    /\ handle = None
    /\ last = Return("init", <<>>, <<>>)

InitDie == Game_init(<<DieFaces>>)

NextDie ==
    \/ \E a \in ChangeWeightInputs : change_weight(1, a[1], a[2])
    \/ \E n \in RollCounts : roll(1, n)
    \/ get_state(1)
    \/ \E face \in FaceInputs, w \in SnapshotWeights : snapshot_set(face, w)
    \/ \E face \in FaceInputs : snapshot_drop(face)

SpecDie == InitDie /\ [][NextDie]_vars

---------------------------------------------------------------------------
\* A game: dice, plays, retrieval and analyzer construction

\* Largest num_rolls argument play is tried with (the smallest is -1).
MaxPlay == 1

Ints == <<IntFace(1), IntFace(2)>>
Strs == <<StrFace(1), StrFace(2)>>
\* Game takes a list of dice (a non-empty collection in the specification):
\* one die, and two dice with different face sets.
GameConfigs == {<<Ints>>, <<Ints, <<IntFace(3)>>>>}
GameWeightInputs == {PyNum(0), PyNum(1)}
PlayCounts == (-1)..MaxPlay
Forms == {"wide", "narrow", "invalid"}
Marker == IntFace(9)

InitGame == \E config \in GameConfigs : Game_init(config)

NextGame ==
    \/ \E i \in DOMAIN dice, w \in GameWeightInputs :
           \E face \in SeqToSet(dice[i].faces) : change_weight(i, face, w)
    \/ \E n \in PlayCounts : play(n)
    \/ \E form \in Forms : get_recent_play(form)
    \/ table_set(Marker)
    \/ \E game \in {"game", "invalid_game"} : Analyzer_init(game)

SpecGame == InitGame /\ [][NextGame]_vars

---------------------------------------------------------------------------
\* The statistics of an analyzer, over the tables a play can produce

\* Largest number of rows of the analyzed table.
MaxRows == 3

\* One die; two dice with the same faces; an int die with a str die.
StatsConfigs == {<<Ints>>, <<Ints, Ints>>, <<Ints, Strs>>}

\* The state after Game(dice), play(n) and Analyzer(game).
InitStats ==
    \E config \in StatsConfigs, n \in 0..MaxRows :
        LET d == Len(config)
            frames == [i \in DOMAIN config |-> Die_init(config[i], i).frame]
        IN  \E draws \in PlayDraws(frames, n) :
                /\ dice = [i \in DOMAIN config |-> Die_init(config[i], i).obj]
                /\ heap = [r \in 1..(d + 4) |->
                              IF r <= d THEN frames[r]
                              ELSE IF r <= d + 2
                                THEN WideFrame(PlayLoop(frames, n, draws).roll_results)
                                ELSE Free]
                /\ results = d + 1
                /\ analyzer = d + 2
                /\ handle = None
                /\ last = Return("Analyzer", <<"game">>, <<>>)

NextStats == jackpot \/ combo_count \/ permutation_count

SpecStats == InitStats /\ [][NextStats]_vars

---------------------------------------------------------------------------
\* Properties of one die (checked under SpecDie)

TheDie == heap[dice[1].die_state]
TheDieNext == heap'[dice[1].die_state]

\* C3: a successful roll(n) returns exactly n values, each a face the die was
\* constructed with, whatever weight changes came before; and the face set
\* of the die is never changed.
C3_RollLengthAndFaces ==
    /\ DOMAIN TheDie.w = SeqToSet(DieFaces)
    /\ dice[1].faces = DieFaces
    /\ (last.op = "roll" /\ last.exc = "") =>
          /\ last.args[2] >= 0
          /\ Len(last.val) = last.args[2]
          /\ \A k \in 1..Len(last.val) : last.val[k] \in SeqToSet(DieFaces)

\* A roll of MaxRolls values succeeded on a die whose first face was given
\* weight zero.
C3_Witness ==
    /\ last.op = "roll" /\ last.exc = ""
    /\ last.args[2] = MaxRolls
    /\ TheDie.w[DieFaces[1]] = Num(0)

\* What the specification calls a weight that can be interpreted as a
\* finite number.
IsFiniteNumber(x) == x.ty = "num" \/ (x.ty = "str" /\ x.txt = "1")

\* C6: setWeight fails with the unknown-face error for an absent face and
\* with the invalid-weight error for a weight that is no finite number
\* (text, NaN, infinity), leaving every weight unchanged; on success exactly
\* the named face's weight is replaced.
C6_SetWeightContract ==
    [][last'.op = "change_weight" =>
        LET face == last'.args[2]
            x == last'.args[3]
        IN  /\ face \notin SeqToSet(DieFaces) =>
                  last'.exc = "IndexError" /\ TheDieNext = TheDie
            /\ (face \in SeqToSet(DieFaces) /\ ~IsFiniteNumber(x)) =>
                  last'.exc = "TypeError" /\ TheDieNext = TheDie
            /\ (face \in SeqToSet(DieFaces) /\ IsFiniteNumber(x)) =>
                  /\ last'.exc = ""
                  /\ TheDieNext.w[face] = float(x).val
                  /\ \A g \in SeqToSet(DieFaces) \ {face} :
                         TheDieNext.w[g] = TheDie.w[g]]_vars

\* A weight that is a non-negative real number.
NonNegative(w) == w.k = "inf" \/ (w.k = "num" /\ w.v >= 0)

\* C7: every stored weight of a die is non-negative in every reachable
\* state, and every weight is 1.0 right after construction.
C7_WeightsNonNegative ==
    /\ \A f \in DOMAIN TheDie.w : NonNegative(TheDie.w[f])
    /\ last.op = "init" => \A f \in DOMAIN TheDie.w : TheDie.w[f] = Num(1)

\* C8: get_state returns a new frame that equals the die's current weights;
\* what the caller does to that frame leaves the die's frame as it was, and
\* a later change_weight leaves a frame already returned as it was.
C8_SnapshotIsCopy ==
    [][/\ last'.op = "get_state" =>
             /\ handle' # dice[1].die_state
             /\ heap'[handle'] = TheDie
             /\ TheDieNext = TheDie
       /\ last'.op \in {"snapshot_set", "snapshot_drop"} => TheDieNext = TheDie
       /\ (last'.op = "change_weight" /\ handle # None) =>
             heap'[handle] = heap[handle]]_vars

\* The caller added a row to a returned frame, which now differs from the
\* die's own.
C8_Witness ==
    /\ handle # None
    /\ last.op = "snapshot_set"
    /\ AbsentFace \in DOMAIN heap[handle].w
    /\ heap[handle] # TheDie

---------------------------------------------------------------------------
\* Properties of a game (checked under SpecGame)

\* The errors of the specification, by the raise statement of the code.
NoResults(call) ==
    /\ call.exc = "ValueError"
    /\ call.msg \in {"no results to show. play the game first",
                     "the game has no results to analyze"}
InvalidArgument(call) ==
    /\ call.exc = "ValueError"
    /\ call.msg = "invalid format. use 'wide' or 'narrow'"

\* C1: once an analyzer is built, no later operation (a play that replaces
\* the session's table, a weight change, a write to a table get_recent_play
\* returned) changes the table it holds, which is a copy of the session's
\* table at construction.
C1_AnalyzerSnapshotFixed ==
    [][/\ (last'.op = "Analyzer" /\ last'.exc = "") =>
             /\ analyzer' # results
             /\ heap'[analyzer'] = heap[results]
       /\ (analyzer # None /\ ~(last'.op = "Analyzer" /\ last'.exc = "")) =>
             /\ analyzer' = analyzer
             /\ heap'[analyzer] = heap[analyzer]]_vars

\* A later play replaced the session's table by a different one while an
\* analyzer existed.
C1_Witness ==
    /\ analyzer # None
    /\ last.op = "play" /\ last.exc = ""
    /\ heap[results] # heap[analyzer]

\* C2: a play that fails leaves the stored table exactly as it was: absent
\* if it was absent, else the same table with the same content.
C2_FailedPlayKeepsTable ==
    [][(last'.op = "play" /\ last'.exc # "") =>
          /\ results' = results
          /\ results # None => heap'[results] = heap[results]]_vars

\* A play with num_rolls >= 0 failed at the second die, after the first die
\* was rolled, while a table was stored.
C2_Witness ==
    /\ last.op = "play" /\ last.exc # ""
    /\ last.args[1] >= 0
    /\ results # None
    /\ Len(dice) = 2
    /\ ~SampleRaises(heap[dice[1].die_state], last.args[1])
    /\ SampleRaises(heap[dice[2].die_state], last.args[1])

\* C4: after a successful play(n) on d dice the stored table has n rows and
\* d columns, column i holds faces of die i only, and the narrow layout has
\* n*d rows, whatever was stored before.
C4_PlayShape ==
    /\ (last.op = "play" /\ last.exc = "") =>
          LET cols == heap[results].cols
              n == last.args[1]
          IN  /\ Len(cols) = Len(dice)
              /\ NumRows(cols) = n
              /\ \A c \in DOMAIN cols :
                    /\ Len(cols[c]) = n
                    /\ \A r \in DOMAIN cols[c] : cols[c][r] \in SeqToSet(dice[c].faces)
              /\ Len(Melt(cols, 1)) = n * Len(dice)
    /\ (last.op = "get_recent_play" /\ last.exc = "" /\ last.args[1] = "narrow") =>
          /\ heap[handle].kind = "narrow"
          /\ Len(heap[handle].rows) = NumRows(heap[results].cols) * Len(dice)

\* A play of MaxPlay rolls on two dice succeeded after an earlier play of
\* MaxPlay rolls (whose table an analyzer still holds).
C4_Witness ==
    /\ last.op = "play" /\ last.exc = ""
    /\ last.args[1] = MaxPlay
    /\ Len(dice) = 2
    /\ analyzer # None
    /\ NumRows(heap[analyzer].cols) = MaxPlay

\* C5: until a play has succeeded, get_recent_play (any layout) and Analyzer
\* construction fail with the no-results error; afterwards get_recent_play
\* succeeds for 'wide' and 'narrow' and fails with the invalid-argument
\* error for any other layout; neither failure changes the state.  (The
\* stored table is absent at first, becomes present by a successful play
\* only, and is never absent again.)
C5_RetrievalErrors ==
    [][/\ results' # results => (last'.op = "play" /\ last'.exc = "")
       /\ (last'.op = "play" /\ last'.exc = "") => results' # None
       /\ results # None => results' # None
       /\ (last'.op = "get_recent_play" /\ results = None) =>
             /\ NoResults(last')
             /\ UNCHANGED <<dice, heap, results, analyzer, handle>>
       /\ (last'.op = "Analyzer" /\ last'.args[1] = "game" /\ results = None) =>
             /\ NoResults(last')
             /\ UNCHANGED <<dice, heap, results, analyzer, handle>>
       /\ (last'.op = "get_recent_play" /\ results # None) =>
             IF last'.args[1] \in {"wide", "narrow"}
               THEN /\ last'.exc = ""
                    /\ heap'[handle'].kind = last'.args[1]
               ELSE /\ InvalidArgument(last')
                    /\ UNCHANGED <<dice, heap, results, analyzer, handle>>]_vars

\* No table is stored and get_recent_play('wide') has just failed with the
\* no-results error.
C5_Witness ==
    /\ results = None
    /\ last.op = "get_recent_play"
    /\ last.args[1] = "wide"
    /\ NoResults(last)

---------------------------------------------------------------------------
\* Properties of the statistics (checked under SpecStats)

CountOf(s, x) == Cardinality({i \in DOMAIN s : s[i] = x})
SameBag(a, b) ==
    /\ Len(a) = Len(b)
    /\ \A x \in SeqToSet(a) \cup SeqToSet(b) : CountOf(a, x) = CountOf(b, x)
Ascending(t) == \A i, j \in DOMAIN t : i < j => t[i].v <= t[j].v
MixedRow(row) == \E i, j \in DOMAIN row : row[i].t # row[j].t

RECURSIVE SumFrequency(_)
SumFrequency(es) ==
    IF es = <<>> THEN 0 ELSE Head(es).Frequency + SumFrequency(Tail(es))

\* The entries of combo_count: one per multiset of outcomes that occurs, its
\* key ascending, its frequency the number of rows with that multiset.
CombosRight(es, rows) ==
    /\ \A i \in DOMAIN es :
          /\ Ascending(es[i].Combination)
          /\ es[i].Frequency =
                Cardinality({r \in DOMAIN rows : SameBag(rows[r], es[i].Combination)})
          /\ es[i].Frequency >= 1
    /\ \A i, j \in DOMAIN es : i # j => es[i].Combination # es[j].Combination
    /\ \A r \in DOMAIN rows : \E i \in DOMAIN es : SameBag(rows[r], es[i].Combination)
    /\ SumFrequency(es) = Len(rows)

\* The entries of permutation_count: one per row tuple that occurs, its
\* frequency the number of rows equal to it.
PermsRight(es, rows) ==
    /\ \A i \in DOMAIN es :
          /\ es[i].Frequency =
                Cardinality({r \in DOMAIN rows : rows[r] = es[i].Permutation})
          /\ es[i].Frequency >= 1
    /\ \A i, j \in DOMAIN es : i # j => es[i].Permutation # es[j].Permutation
    /\ \A r \in DOMAIN rows : \E i \in DOMAIN es : rows[r] = es[i].Permutation
    /\ SumFrequency(es) = Len(rows)

UniformRow(row) == \A c \in DOMAIN row : row[c] = row[1]

\* C10: jackpot returns the number of rows in which all dice show the same
\* face: between 0 and the number of rows, the number of rows when every
\* row is uniform and when there is a single die.
C10_JackpotCount ==
    last.op = "jackpot" =>
        LET k == last.val[1]
            rows == AnalyzerRows
        IN  /\ last.exc = ""
            /\ k = Cardinality({r \in DOMAIN rows : UniformRow(rows[r])})
            /\ 0 <= k /\ k <= Len(rows)
            /\ (\A r \in DOMAIN rows : UniformRow(rows[r])) => k = Len(rows)
            /\ Len(dice) = 1 => k = Len(rows)

\* jackpot returned 1 for a two-dice table of MaxRows rows of which exactly
\* one is uniform.
C10_Witness ==
    /\ last.op = "jackpot"
    /\ Len(dice) = 2
    /\ Len(AnalyzerRows) = MaxRows
    /\ last.val = <<1>>
    /\ UniformRow(AnalyzerRows[1])

====
